---- MODULE Spec2Model ----
(***************************************************************************)
(* PyModelarDB: a PEP 249 client.  One Connection (connection.py) hands    *)
(* out cursors (cursors.py) of the variant its interface selects: Arrow    *)
(* Flight (streamed record batches), HTTP and socket (JSON text bodies).   *)
(*                                                                         *)
(* Python values are modelled by tokens: a scalar is a string token, a row *)
(* (tuple) is a sequence of tokens, None is the record field none = TRUE.  *)
(* Every public call is one action; it records its outcome (the exception  *)
(* class it raised, or "ok" and the value returned) in the variable last.  *)
(* cursors.py reads the host as connection._host; the linkage between a    *)
(* cursor and the connection that constructed it is modelled as working.   *)
(***************************************************************************)
EXTENDS Integers, Sequences, FiniteSets, TLC

\* ---------------------------------------------------------------- bounds
\* Cursors a connection can hand out (the cursors the model has room for).
MaxCursors == 2
\* Rows of the regular (well-formed) responses the server sends.
MaxRows == 3
\* Largest size argument given to fetchmany.
MaxSize == 2
\* Characters of the raw text of a body that is not one of TextBodies.
MaxText == 4
\* Pieces of the text of a DSN.
MaxDsn == 5
\* Parameter sets given to executemany.
MaxBatch == 2
\* Pieces of the text of an operation.
MaxQuery == 2
\* Requests a socket cursor writes while its reads are followed one by one.
MaxRequests == 3
\* Pieces the server writes a response in.
MaxPieces == 2

\* ------------------------------------------------------------- types.py
Interface == {"ARROW", "SOCKET", "HTTP"}

TypeOf == {"STRING", "BINARY", "NUMBER", "DATETIME", "ROWID"}

Cursors == 1..MaxCursors

\* ------------------------------------------------- values and responses
\* Scalar tokens: numbers, one text value, and the falsy number 0.
Num(i) == CASE i = 0 -> "0" [] i = 1 -> "1" [] i = 2 -> "2" [] i = 3 -> "3"
            [] i = 4 -> "4" [] OTHER -> "9"

\* An element of the JSON list under "result": a row-object (dict, an
\* ordered sequence of <<name, value>> items) or any other JSON value.
RowObject(items) == [dict |-> TRUE, items |-> items, val |-> ""]

Scalar(v) == [dict |-> FALSE, items |-> <<>>, val |-> v]

\* Python truth value of a JSON element (not x, cursors.py line 134).
Truthy(e) == IF e.dict THEN Len(e.items) > 0 ELSE e.val \notin {"0", ""}

\* The data point i the mock servers of the tests send.
DataPoint(i) == RowObject(<< <<"TID", Num(i)>>, <<"TIMESTAMP", "'1990-05-01'">> >>)

\* The row-object with its members in the opposite order (the members of a
\* JSON object are unordered; json.loads keeps the order of the text).
Reversed(e) ==
    [e EXCEPT !.items = [i \in 1..Len(e.items) |-> e.items[Len(e.items) + 1 - i]]]

\* The raw text of a body, character by character: the two brackets, a
\* whitespace character, and "e" for any other character.
Chars == {"[", "]", " ", "e"}

Texts(n) == UNION { [1..k -> Chars] : k \in 0..n }

\* The text without its whitespace.
RECURSIVE Dense(_)
Dense(text) ==
    IF Len(text) = 0 THEN <<>>
    ELSE IF Head(text) = " " THEN Dense(Tail(text))
    ELSE <<Head(text)>> \o Dense(Tail(text))

\* json.loads accepts the text: of the texts over Chars those that are a
\* JSON value are the arrays [], [[]], [[[]]], ... with any whitespace.
IsJson(text) ==
    LET d == Dense(text) IN
    /\ Len(d) >= 2 /\ Len(d) % 2 = 0
    /\ \A i \in 1..Len(d) : d[i] = IF 2 * i <= Len(d) THEN "[" ELSE "]"

\* A text body (HTTP, socket): shape notjson (json.loads raises
\* JSONDecodeError on text), array (the text is a JSON array), nokey (an
\* object with no 'result' key), scalar ('result' is a number) or list
\* ('result' is the list result).
Body(shape, result) == [shape |-> shape, result |-> result, text |-> <<>>]

\* The body a raw text over Chars is.
RawBody(text) ==
    [shape |-> IF IsJson(text) THEN "array" ELSE "notjson", result |-> <<>>,
     text |-> text]

RegularBody(n) == Body("list", [i \in 1..n |-> DataPoint(i)])

\* The error response of the tests' mock server, from its "[" on.
ErrorText == <<"[", " ", "e", " ", "]", " ", "e">>

TextBodies ==
    { RawBody(ErrorText), Body("nokey", <<>>), Body("scalar", <<>>),
      Body("list", <<>>),
      Body("list", << RowObject(<<>>) >>),
      Body("list", << Scalar("0") >>),
      Body("list", << Scalar("7") >>),
      Body("list", << DataPoint(1), Scalar("7"), DataPoint(3) >>),
      Body("list", << RowObject(<<>>), DataPoint(2) >>),
      Body("list", << DataPoint(1), Reversed(DataPoint(2)) >>) }
    \cup { RegularBody(n) : n \in 1..MaxRows }

\* The text of an operation, piece by piece: a whitespace character, the
\* placeholders %(a)s and %(b)s, and "SELECT" for any other text.
Pieces == {" ", "SELECT", "%(a)s", "%(b)s"}

\* self.__placeholder_search: the name a placeholder encloses.
PlaceholderName(piece) ==
    CASE piece = "%(a)s" -> "a" [] piece = "%(b)s" -> "b" [] OTHER -> ""

\* The parameters of an execute: None, a mapping (dict) or a positional
\* sequence (list, tuple); items are <<name, value>>, with the name "" in
\* a sequence.
NoParameters == [kind |-> "none", items |-> <<>>]

Mapping(items) == [kind |-> "dict", items |-> items]

Positional(kind, values) ==
    [kind |-> kind, items |-> [i \in 1..Len(values) |-> <<"", values[i]>>]]

Query(operation, parameters) ==
    [operation |-> operation, parameters |-> parameters]

NoQuery == Query(<<>>, NoParameters)

\* The query of the tests: no placeholder, no parameters.
PlainQueries == { Query(<<"SELECT">>, NoParameters) }

\* Arrow wire types of the type map (cursors.py lines 164-172).
TypeMapKeys == {"string", "int32", "timestamp_ms", "timestamp_us_UTC",
                "float32", "float64", "binary"}

\* A record batch: the names of its schema, and column-major data, one
\* sequence of values per schema column; fault marks a transport fault
\* raised when the batch is read.
Batch(names, cols, n) ==
    [fault |-> FALSE, names |-> names, cols |-> cols, num_rows |-> n]

FaultBatch == [fault |-> TRUE, names |-> <<>>, cols |-> <<>>, num_rows |-> 0]

\* What do_get yields: raise names the exception do_get raises ("" when it
\* returns a stream), schema is a sequence of <<name, wire type>>.
Flight(raise, schema, batches) ==
    [raise |-> raise, schema |-> schema, batches |-> batches]

PointSchema == << <<"TID", "int32">>, <<"TIMESTAMP", "timestamp_ms">> >>

\* Rows lo..hi of the data points as one batch.
PointBatch(lo, hi) ==
    Batch(<<"TID", "TIMESTAMP">>,
          << [j \in 1..(hi - lo + 1) |-> Num(lo + j - 1)],
             [j \in 1..(hi - lo + 1) |-> "ts"] >>, hi - lo + 1)

\* A result with two columns of one name (SELECT TID, TID AS ..., or the
\* columns of two joined tables): Arrow schemas allow it.
TwiceSchema == << <<"TID", "int32">>, <<"TID", "float32">> >>

TwiceBatch == Batch(<<"TID", "TID">>, << <<"1">>, <<"2">> >>, 1)

FlightResponses ==
    { Flight("FlightUnavailableError", <<>>, <<>>),
      Flight("ArrowException", <<>>, <<>>),
      Flight("ArrowException without payload", <<>>, <<>>),
      Flight("", << <<"TID", "int64">> >>, <<>>),
      Flight("", <<>>, <<>>),
      Flight("", PointSchema, << PointBatch(1, 1), FaultBatch, PointBatch(2, 2) >>),
      Flight("", PointSchema, << PointBatch(1, 0), PointBatch(1, 1) >>),
      Flight("", TwiceSchema, << TwiceBatch >>) }
    \cup { Flight("", PointSchema, << PointBatch(1, 1), PointBatch(2, n) >>) :
             n \in 1..MaxRows }

\* ------------------------------------------------------- result iterators
\* self._result_set: None, the map object of Cursor._after_execute (rest:
\* the elements not yet converted) or the generator of ArrowCursor (buf: the
\* rows of the current chunk not yet yielded, stream: the batches not yet read).
NoResultSet == [kind |-> "none", rest |-> <<>>, buf |-> <<>>, stream |-> <<>>]

MapOver(result_set) ==
    [kind |-> "map", rest |-> result_set, buf |-> <<>>, stream |-> <<>>]

\* Faulty variant: the first batch is read when the generator is made.
WrapWithFirstBatch(batches) ==
    IF Len(batches) = 0 \/ Head(batches).fault
    THEN [kind |-> "gen", rest |-> <<>>, buf |-> <<>>, stream |-> batches]
    ELSE [kind |-> "gen", rest |-> <<>>,
          buf |-> [j \in 1..Head(batches).num_rows |->
                     [c \in 1..Len(Head(batches).cols) |-> Head(batches).cols[c][j]]],
          stream |-> Tail(batches)]

WrapWithGenerator(batches) ==
    [kind |-> "gen", rest |-> <<>>, buf |-> <<>>, stream |-> batches]

\* tuple(result.values()) of a row-object.
RowValues(e) == [i \in 1..Len(e.items) |-> e.items[i][2]]

\* chunk.to_pydict()[name]: a dict from each name of the schema to the
\* values of its column; of the columns of one name the last one is kept.
ToPydict(chunk, name) ==
    LET named == {c \in 1..Len(chunk.names) : chunk.names[c] = name} IN
    chunk.cols[CHOOSE c \in named : \A d \in named : d <= c]

\* The rows of one chunk: row j takes, for each name of the chunk's schema
\* in order, the j-th value the dict holds under that name.
ChunkRows(chunk) ==
    [j \in 1..chunk.num_rows |->
        [c \in 1..Len(chunk.names) |-> ToPydict(chunk, chunk.names[c])[j]]]

Pulled(out, row, it, exc) == [out |-> out, row |-> row, it |-> it, exc |-> exc]

\* next() on the generator: resume after the last yield.
RECURSIVE GenNext(_)
GenNext(it) ==
    IF Len(it.buf) > 0
    THEN Pulled("row", Head(it.buf), [it EXCEPT !.buf = Tail(@)], "")
    ELSE IF Len(it.stream) = 0
    THEN Pulled("stop", <<>>, it, "StopIteration")
    ELSE IF Head(it.stream).fault
    THEN Pulled("error", <<>>, [it EXCEPT !.stream = <<>>], "FlightError")
    ELSE GenNext([it EXCEPT !.buf = ChunkRows(Head(it.stream)),
                            !.stream = Tail(@)])

\* next() on the map object: convert the next element; the element is
\* consumed also when the conversion raises.
MapNext(it) ==
    IF Len(it.rest) = 0
    THEN Pulled("stop", <<>>, it, "StopIteration")
    ELSE IF Head(it.rest).dict
    THEN Pulled("row", RowValues(Head(it.rest)), [it EXCEPT !.rest = Tail(@)], "")
    ELSE Pulled("error", <<>>, [it EXCEPT !.rest = Tail(@)], "AttributeError")

IterNext(it) == IF it.kind = "gen" THEN GenNext(it) ELSE MapNext(it)

Listed(out, rows, it, exc) == [out |-> out, rows |-> rows, it |-> it, exc |-> exc]

\* list(itertools.islice(it, n)): up to n rows; an exception raised by a
\* pull propagates and the rows pulled before it are dropped with the list.
RECURSIVE Islice(_, _, _)
Islice(it, n, acc) ==
    IF n = 0 THEN Listed("ok", acc, it, "")
    ELSE LET p == IterNext(it) IN
         CASE p.out = "row" -> Islice(p.it, n - 1, Append(acc, p.row))
           [] p.out = "stop" -> Listed("ok", acc, p.it, "")
           [] OTHER -> Listed("error", <<>>, p.it, p.exc)

\* list(it): every remaining row.
RECURSIVE ListAll(_, _)
ListAll(it, acc) ==
    LET p == IterNext(it) IN
    CASE p.out = "row" -> ListAll(p.it, Append(acc, p.row))
      [] p.out = "stop" -> Listed("ok", acc, p.it, "")
      [] OTHER -> Listed("error", <<>>, p.it, p.exc)

\* ------------------------------------------------------------ descriptions
NoDescription == [none |-> TRUE, cols |-> <<>>]

Description(cols) == [none |-> FALSE, cols |-> cols]

Column(name, type_code) ==
    <<name, type_code, "None", "None", "None", "None", FALSE>>

\* value is str: an identity test of a JSON value against the class str.
ValueIsStr(value) == FALSE

TextTypeCode(value) == IF ValueIsStr(value) THEN "STRING" ELSE "NUMBER"

\* self.__type_map
TypeMap(type_name) ==
    CASE type_name = "string" -> "STRING"
      [] type_name \in {"int32", "float32", "float64"} -> "NUMBER"
      [] type_name \in {"timestamp_ms", "timestamp_us_UTC"} -> "DATETIME"
      [] OTHER -> "BINARY"

\* ------------------------------------------------------ Connection.__init__
\* An optional str argument is the token "None" (None), "" or a text.
Given(value) == value \notin {"None", ""}

\* The dsn argument: None, or a text piece by piece (the separators "://"
\* and ":", names, digits).
NoDsn == [none |-> TRUE, text |-> <<>>]

Dsn(text) == [none |-> FALSE, text |-> text]

\* The arguments of Connection(...); port is a text of digits when it parses
\* as a number.
Arguments(dsn, user, password, host, database, interface, port) ==
    [dsn |-> dsn, user |-> user, password |-> password, host |-> host,
     database |-> database, interface |-> interface, port |-> port]

\* DEFAULT_PORT_NUMBER (9999 by the docstring of Connection).
DefaultPort == <<"9999">>

NoArguments == Arguments(NoDsn, "None", "None", "None", "None", "None", DefaultPort)

\* str.split(sep): the segments between the occurrences of sep.
RECURSIVE Split(_, _)
Split(text, sep) ==
    LET at == {i \in 1..Len(text) : text[i] = sep} IN
    IF at = {} THEN <<text>>
    ELSE LET i == CHOOSE i \in at : \A j \in at : i <= j IN
         <<SubSeq(text, 1, i - 1)>> \o Split(SubSeq(text, i + 1, Len(text)), sep)

\* int(text) returns: text is made of digits.
IsInt(text) == Len(text) > 0 /\ \A i \in 1..Len(text) : text[i] = "9999"

\* Faulty variant: the name is looked up as it is written.
UpperAsIs(name) == name

\* str.upper on a name.
Upper(name) ==
    CASE name \in {"arrow", "Arrow", "ARROW"} -> "ARROW"
      [] name \in {"http", "Http", "HTTP"} -> "HTTP"
      [] name \in {"socket", "Socket", "SOCKET"} -> "SOCKET"
      [] name = "odbc" -> "ODBC"
      [] name = "h" -> "H"
      [] OTHER -> name

\* Faulty variant: the classes of the two text interfaces are exchanged.
CursorClassExchanged(interface) ==
    CASE interface = "ARROW" -> "ARROW"
      [] interface = "HTTP" -> "SOCKET"
      [] interface = "SOCKET" -> "HTTP"

\* The cursor class stored in self.__cursor for a member of Interface:
\* ArrowCursor, HTTPCursor or SocketCursor.
CursorClass(interface) ==
    CASE interface = "ARROW" -> "ARROW"
      [] interface = "HTTP" -> "HTTP"
      [] interface = "SOCKET" -> "SOCKET"

\* No Connection: the constructor was not called, or it raised.  given holds
\* the arguments of the constructor call, for the history.
NoConnection ==
    [made |-> FALSE, interface |-> "", closed |-> FALSE, host |-> <<>>,
     port |-> <<>>, given |-> NoArguments]

Constructed(exc, conn) == [exc |-> exc, connection |-> conn]

Raised(exc, args) == Constructed(exc, [NoConnection EXCEPT !.given = args])

\* Connection.__init__ from the lookup of the interface on.
Select(interface, host, port, args) ==
    IF Len(interface) = 1 /\ Upper(interface[1]) \in Interface
    THEN Constructed("",
           [made |-> TRUE, interface |-> CursorClass(Upper(interface[1])),
            closed |-> FALSE, host |-> host, port |-> port, given |-> args])
    ELSE Raised("ProgrammingError", args)

\* user or password or database
Credentials(args) ==
    Given(args.user) \/ Given(args.password) \/ Given(args.database)

\* Connection.__init__
Connect(args) ==
    IF Credentials(args) THEN Raised("NotSupportedError", args)
    ELSE IF ~args.dsn.none /\ Len(args.dsn.text) > 0
    THEN LET parts == Split(args.dsn.text, "://") IN
         IF Len(parts) # 2 THEN Raised("ProgrammingError", args)
         ELSE LET hostAndMaybePortSplit == Split(parts[2], ":") IN
              IF Len(hostAndMaybePortSplit) > 1 /\ ~IsInt(hostAndMaybePortSplit[2])
              THEN Raised("ProgrammingError", args)
              ELSE Select(parts[1], hostAndMaybePortSplit[1],
                          IF Len(hostAndMaybePortSplit) > 1
                          THEN hostAndMaybePortSplit[2] ELSE DefaultPort, args)
    ELSE IF Given(args.host) /\ Given(args.interface)
    THEN Select(<<args.interface>>, <<args.host>>, args.port, args)
    ELSE Raised("ProgrammingError", args)

\* The connections of the tests: a DSN naming an interface and localhost.
TestConnections ==
    { Connect([NoArguments EXCEPT !.dsn = Dsn(<<name, "://", "h">>)]).connection :
         name \in {"arrow", "http", "socket"} }

\* -------------------------------------------------------------------- state
VARIABLES
    connection,   \* the Connection: its cursor class, host, port, __closed
    cursor,       \* cursor[c]: the fields of the c-th cursor handed out
    hist,         \* history of each cursor (records what its calls did)
    last          \* the last call: operation, target, outcome, value returned

vars == <<connection, cursor, hist, last>>

\* self.arraysize
ArraySize == 1

\* The Telnet connection of a socket cursor beyond its being open (field
\* telnet): opens, closes: the connections the cursor has opened and the
\* calls of Telnet.close it has made; inbox: what the server has written and
\* the cursor has not read; outbox: what the server has still to write; n:
\* the requests written; and, while an execute is between its write and
\* its parse, pc: the read it is at, query: its arguments, result: its list
\* of chunks read.
NoWire ==
    [opens |-> 0, closes |-> 0, inbox |-> <<>>, outbox |-> <<>>, n |-> 0,
     pc |-> "idle", query |-> NoQuery, result |-> <<>>]

\* Telnet(host, 9999): the constructor opens the connection.
TelnetOpen == [NoWire EXCEPT !.opens = 1]

\* A cursor not constructed yet.
NoCursor ==
    [created |-> FALSE, variant |-> "", connection |-> FALSE,
     description |-> NoDescription, rowcount |-> -1, arraysize |-> ArraySize,
     result_set |-> NoResultSet, telnet |-> "none", wire |-> NoWire]

\* Faulty variant: the row count starts at 0.
NewCursorZeroRowcount(variant) ==
    [created |-> TRUE, variant |-> variant, connection |-> TRUE,
     description |-> NoDescription, rowcount |-> 0, arraysize |-> ArraySize,
     result_set |-> NoResultSet,
     telnet |-> IF variant = "SOCKET" THEN "open" ELSE "none",
     wire |-> IF variant = "SOCKET" THEN TelnetOpen ELSE NoWire]

\* Cursor.__init__, followed by the variant's own __init__ (the socket
\* variant opens its Telnet connection).
NewCursor(variant) ==
    [created |-> TRUE, variant |-> variant, connection |-> TRUE,
     description |-> NoDescription, rowcount |-> -1, arraysize |-> ArraySize,
     result_set |-> NoResultSet,
     telnet |-> IF variant = "SOCKET" THEN "open" ELSE "none",
     wire |-> IF variant = "SOCKET" THEN TelnetOpen ELSE NoWire]

\* History of a cursor: ok: an execute has succeeded; description, rowcount:
\* what the most recent successful execute reported; objects, rows: the
\* row-objects of its result in server order and the rows they convert to; delivered: the rows the fetch calls returned since;
\* window: no execute was called since; fresh: no call at all was made since;
\* exhausted: its row sequence was seen exhausted; quirk: the body the last
\* execute received held a single empty row-object as its result; stream:
\* the batches of the stream the most recent successful execute was given.
NoHistory ==
    [ok |-> FALSE, description |-> NoDescription, rowcount |-> -1,
     rows |-> <<>>, objects |-> <<>>, delivered |-> <<>>, window |-> FALSE,
     fresh |-> FALSE, exhausted |-> FALSE, quirk |-> FALSE, stream |-> <<>>]

\* A call and how it ended: op on cursor id (0: on the connection) raised
\* out ("ok": it returned) with the message msg; it returned None (none) or
\* the rows; given, size: the size argument of fetchmany; first: a fetch
\* that is the first call after a successful execute; query: the operation
\* and parameters of an execute; sent: the requests sent to the server, in
\* order; raw: holds the text of the body received, when it is a raw text;
\* batch: the parameter sets given to executemany; log: the executes it
\* performed (the parameters and the outcome of each, the cursor it left);
\* reads, parsed: the chunks a socket execute read, in order, and the text
\* it handed to the parser; handle: the response handle an HTTP execute
\* opened, as the call left it ("none": it opened none).
Call(op, id, out, none, rows, given, size) ==
    [op |-> op, id |-> id, out |-> out, none |-> none, rows |-> rows,
     given |-> given, size |-> size, first |-> FALSE, msg |-> <<>>,
     query |-> NoQuery, sent |-> <<>>, raw |-> <<>>, batch |-> <<>>,
     log |-> <<>>, reads |-> <<>>, parsed |-> <<>>, handle |-> "none"]

\* A call that returns nothing or raises.
Plain(op, id, out) == Call(op, id, out, FALSE, <<>>, FALSE, 0)

Init ==
    /\ connection \in TestConnections
    /\ cursor = [c \in Cursors |-> NoCursor]
    /\ hist = [c \in Cursors |-> NoHistory]
    /\ last = Plain("Connection", 0, "ok")

\* --------------------------------------------------------------- Connection
\* Faulty variant: the guard never raises.
ConnectionIsClosedNever(conn) == ""

\* Connection._is_closed: the exception the guard raises ("" when none).
ConnectionIsClosed(conn) == IF conn.closed THEN "ProgrammingError" ELSE ""

\* Connection.close
ConnectionClose ==
    LET exc == ConnectionIsClosed(connection) IN
    /\ connection.made
    /\ connection' = IF exc = "" THEN [connection EXCEPT !.closed = TRUE]
                     ELSE connection
    /\ last' = Plain("Connection.close", 0, IF exc = "" THEN "ok" ELSE exc)
    /\ UNCHANGED <<cursor, hist>>

\* Connection.commit
ConnectionCommit ==
    LET exc == ConnectionIsClosed(connection) IN
    /\ connection.made
    /\ last' = Plain("Connection.commit", 0, IF exc = "" THEN "ok" ELSE exc)
    /\ UNCHANGED <<connection, cursor, hist>>

\* The cursor the next Connection.cursor() constructs.
NextCursor == Cardinality({c \in Cursors : cursor[c].created}) + 1

\* Connection.cursor, while the cursor to construct is one of ids.
ConnectionCursor(ids) ==
    LET exc == ConnectionIsClosed(connection) IN
    /\ connection.made
    /\ exc = "" => NextCursor \in ids
    /\ cursor' = IF exc = ""
                 THEN [cursor EXCEPT ![NextCursor] = NewCursor(connection.interface)]
                 ELSE cursor
    /\ last' = IF exc = "" THEN Plain("Connection.cursor", NextCursor, "ok")
               ELSE Plain("Connection.cursor", 0, exc)
    /\ UNCHANGED <<connection, hist>>

\* ------------------------------------------------------------------- Cursor
\* Faulty variant: the guard never raises.
IsClosedNever(cur) == ""

\* Faulty variant: a cursor of a closed connection counts as closed.
IsClosedWithConnection(cur) ==
    IF ~cur.connection \/ connection.closed THEN "ProgrammingError" ELSE ""

\* Cursor._is_closed: raises when self._connection is None.
IsClosed(cur) == IF ~cur.connection THEN "ProgrammingError" ELSE ""

\* Cursor._is_result_set_ready: raises when self._result_set is None (a map
\* object and a generator are true whatever they hold).
IsResultSetReady(cur) ==
    IF cur.result_set.kind = "none" THEN "ProgrammingError" ELSE ""

\* How an execute ends: the exception it raises ("" when none) with its
\* message, the cursor it leaves, the requests it sent, (as the one
\* element of raw) the raw text it received, and the response handle it
\* opened as it leaves it.
Outcome(exc, cur) ==
    [exc |-> exc, cur |-> cur, msg |-> <<>>, sent |-> <<>>, raw |-> <<>>,
     handle |-> "none"]

\* str.find and str.rfind: the 0-based index of the first (last) occurrence
\* of ch, -1 when there is none.
Find(text, ch) ==
    LET at == {i \in 1..Len(text) : text[i] = ch} IN
    IF at = {} THEN -1 ELSE (CHOOSE i \in at : \A j \in at : i <= j) - 1

RFind(text, ch) ==
    LET at == {i \in 1..Len(text) : text[i] = ch} IN
    IF at = {} THEN -1 ELSE (CHOOSE i \in at : \A j \in at : i >= j) - 1

\* text[start:end] for start >= 0: a negative end counts from the end.
Slice(text, start, end) ==
    LET stop == IF end < 0 THEN Len(text) + end
                ELSE IF end > Len(text) THEN Len(text) ELSE end
    IN  IF start >= stop THEN <<>> ELSE SubSeq(text, start + 1, stop)

\* Faulty variant: the message keeps its surrounding whitespace.
Unstripped(text) == text

\* str.strip
RECURSIVE Strip(_)
Strip(text) ==
    IF Len(text) = 0 THEN text
    ELSE IF Head(text) = " " THEN Strip(Tail(text))
    ELSE IF text[Len(text)] = " " THEN Strip(SubSeq(text, 1, Len(text) - 1))
    ELSE text

Preamble == <<"unable to execute query due to:\n">>

\* parameters is dict, parameters is list, parameters is tuple: identity
\* tests of the parameters against a class; no mapping and no sequence is
\* the class itself.
ParametersIs(parameters, class) == FALSE

\* Cursor._before_execute: both branches evaluate operation % ... and drop
\* the product; operation itself is encoded (each character of Pieces is
\* one byte in every encoding locale provides) and returned.
BeforeExecute(operation, parameters) ==
    IF ParametersIs(parameters, "dict") THEN operation
    ELSE IF ParametersIs(parameters, "list") \/ ParametersIs(parameters, "tuple")
    THEN operation
    ELSE operation

\* The request an execute sends: the operation stripped (the socket variant
\* ends it with a newline), through _before_execute.
Request(variant, query) ==
    BeforeExecute(IF variant = "SOCKET"
                  THEN Strip(query.operation) \o <<"\n">>
                  ELSE Strip(query.operation),
                  query.parameters)

\* The message of the ProgrammingError raised for a text json.loads rejects.
ErrorMessage(text) ==
    LET start_of_error == Find(text, "[") + 1
        end_of_error == RFind(text, "]")
    IN  Preamble \o Strip(Slice(text, start_of_error, end_of_error))

\* Faulty variant: the {} of an empty result is kept as a row.
NormalizedAsIs(result_set) == result_set

\* The engine based on Apache Spark encodes an empty result as a {}.
Normalized(result_set) ==
    IF Len(result_set) = 1 /\ ~Truthy(result_set[1]) THEN <<>> ELSE result_set

\* The description built from the first row-object.
TextDescription(first) ==
    [i \in 1..Len(first.items) |->
        Column(first.items[i][1], TextTypeCode(first.items[i][2]))]

\* Faulty variant: the row count is left at its initial value.
TextRowCountUnset(result_set) == -1

\* self._rowcount = len(result_set)
TextRowCount(result_set) == Len(result_set)

\* Cursor._after_execute, statement by statement: the result set is
\* assigned before the description is built, the description and the row
\* count after it.
AfterExecute(cur, body) ==
    CASE body.shape = "notjson" ->
           [Outcome("ProgrammingError", cur) EXCEPT !.msg = ErrorMessage(body.text)]
      [] body.shape = "nokey" -> Outcome("KeyError", cur)
      [] body.shape \in {"scalar", "array"} -> Outcome("TypeError", cur)
      [] OTHER ->
           LET result_set == Normalized(body.result)
               assigned == [cur EXCEPT !.result_set = MapOver(result_set)]
           IN  IF Len(result_set) > 0 /\ ~result_set[1].dict
               THEN Outcome("AttributeError", assigned)
               ELSE Outcome("",
                      [assigned EXCEPT
                         !.description =
                            Description(IF Len(result_set) > 0
                                        THEN TextDescription(result_set[1])
                                        ELSE <<>>),
                         !.rowcount = TextRowCount(result_set)])

\* ArrowCursor._after_execute: the type of every column is looked up before
\* anything is assigned.
ArrowAfterExecute(cur, response) ==
    IF \E i \in 1..Len(response.schema) : response.schema[i][2] \notin TypeMapKeys
    THEN Outcome("KeyError", cur)
    ELSE Outcome("",
           [cur EXCEPT
              !.result_set = WrapWithGenerator(response.batches),
              !.description =
                 Description([i \in 1..Len(response.schema) |->
                     Column(response.schema[i][1], TypeMap(response.schema[i][2]))]),
              !.rowcount = -1])

\* ArrowCursor.execute after the closed check: FlightUnavailableError is
\* re-raised as ProgrammingError, and so is an ArrowException whose message
\* embeds the JSON object of the server; json.loads raises on any other.
ArrowExchange(cur, response) ==
    CASE response.raise = "" -> ArrowAfterExecute(cur, response)
      [] response.raise = "ArrowException without payload" ->
           Outcome("JSONDecodeError", cur)
      [] OTHER -> Outcome("ProgrammingError", cur)

\* What a text transport ends with: it raises fault, or delivers body.
Reply(fault, body) == [fault |-> fault, body |-> body]

\* urlopen raises URLError, the Telnet socket OSError.
TransportFault(variant) == IF variant = "HTTP" THEN "URLError" ELSE "OSError"

Replies(variant, bodies) ==
    { Reply(TransportFault(variant), Body("none", <<>>)) }
    \cup { Reply("", body) : body \in bodies }

\* The response handle urlopen returned, when HTTPCursor.execute ends:
\* response.close() is the statement after self._after_execute(...), and
\* is reached only when that call returns.
HandleLeft(variant, exc) ==
    IF variant # "HTTP" THEN "none" ELSE IF exc = "" THEN "closed" ELSE "open"

\* HTTPCursor.execute and SocketCursor.execute after the request is sent:
\* the transport raises, or _after_execute runs on the body read.
TextExchange(cur, reply) ==
    IF reply.fault # "" THEN Outcome(reply.fault, cur)
    ELSE [AfterExecute(cur, reply.body) EXCEPT
            !.raw = IF reply.body.shape \in {"notjson", "array"}
                    THEN <<reply.body.text>> ELSE <<>>,
            !.handle = HandleLeft(cur.variant, AfterExecute(cur, reply.body).exc)]

\* execute(operation, parameters) of the cursor's variant as a whole: the
\* closed check, the request, the exchange.
Execute(cur, query, response) ==
    IF IsClosed(cur) # "" THEN Outcome(IsClosed(cur), cur)
    ELSE [(IF cur.variant = "ARROW" THEN ArrowExchange(cur, response)
           ELSE TextExchange(cur, response))
          EXCEPT !.sent = <<Request(cur.variant, query)>>]

\* The row-objects of a text result in server order.
RECURSIVE TextObjects(_)
TextObjects(result_set) ==
    IF Len(result_set) = 0 THEN <<>>
    ELSE IF Head(result_set).dict
    THEN <<Head(result_set)>> \o TextObjects(Tail(result_set))
    ELSE TextObjects(Tail(result_set))

\* The rows of a text result in server order (its row-objects, converted).
TextRows(result_set) ==
    [j \in 1..Len(TextObjects(result_set)) |-> RowValues(TextObjects(result_set)[j])]

\* The rows of a stream in server order, up to the batch that fails.
RECURSIVE FlightRows(_)
FlightRows(batches) ==
    IF Len(batches) = 0 \/ Head(batches).fault THEN <<>>
    ELSE ChunkRows(Head(batches)) \o FlightRows(Tail(batches))

\* The rows of a stream as row-objects: each value under its schema name.
FlightObjects(response) ==
    [j \in 1..Len(FlightRows(response.batches)) |->
        RowObject([i \in 1..Len(response.schema) |->
                      <<response.schema[i][1], FlightRows(response.batches)[j][i]>>])]

\* No further row and no further error: next() raises StopIteration.
Exhausted(it) == it.kind # "none" /\ IterNext(it).out = "stop"

\* The empty-result convention: a single row-object that is itself empty.
IsQuirk(body) == body.shape = "list" /\ body.result = << RowObject(<<>>) >>

\* What the server answered, for the history: its row-objects in server
\* order, and whether it is the empty-result convention.
Answer(variant, response) ==
    IF variant = "ARROW"
    THEN [objects |-> FlightObjects(response), quirk |-> FALSE,
          stream |-> response.batches]
    ELSE [objects |-> TextObjects(Normalized(response.body.result)),
          quirk |-> response.fault = "" /\ IsQuirk(response.body),
          stream |-> <<>>]

\* The history after an execute: a successful one starts a new result.
AfterExecuteHistory(h, o, answer) ==
    IF o.exc = ""
    THEN [ok |-> TRUE, description |-> o.cur.description,
          rowcount |-> o.cur.rowcount,
          rows |-> [j \in 1..Len(answer.objects) |-> RowValues(answer.objects[j])],
          objects |-> answer.objects, delivered |-> <<>>,
          window |-> TRUE, fresh |-> TRUE,
          exhausted |-> Exhausted(o.cur.result_set), quirk |-> answer.quirk,
          stream |-> answer.stream]
    ELSE [h EXCEPT !.window = FALSE, !.fresh = FALSE, !.quirk = answer.quirk]

\* The history after any other call on the cursor.
Touched(h) == [h EXCEPT !.fresh = FALSE]

\* The record of an execute call that ended with outcome o.
ExecuteCall(c, query, o) ==
    [Plain("execute", c, IF o.exc = "" THEN "ok" ELSE o.exc)
     EXCEPT !.msg = o.msg, !.sent = o.sent, !.raw = o.raw, !.query = query,
            !.handle = o.handle]

\* Faulty variant: the result set is kept in the class, so that every
\* cursor constructed sees the one the execute assigned.
ExecutedInClass(c, query, response) ==
    LET o == Execute(cursor[c], query, response) IN
    /\ cursor' = [d \in Cursors |->
                    IF d = c THEN o.cur
                    ELSE IF cursor[d].created
                    THEN [cursor[d] EXCEPT !.result_set = o.cur.result_set]
                    ELSE cursor[d]]
    /\ hist' = [hist EXCEPT ![c] =
                  AfterExecuteHistory(@, o, Answer(cursor[c].variant, response))]
    /\ last' = ExecuteCall(c, query, o)
    /\ UNCHANGED connection

\* The execute of cursor c with query, answered by response.
Executed(c, query, response) ==
    LET o == Execute(cursor[c], query, response) IN
    /\ cursor' = [cursor EXCEPT ![c] = o.cur]
    /\ hist' = [hist EXCEPT ![c] =
                  AfterExecuteHistory(@, o, Answer(cursor[c].variant, response))]
    /\ last' = ExecuteCall(c, query, o)
    /\ UNCHANGED connection

\* A call on cursor c is refused with exc; nothing else changes.
Refused(op, c, exc) ==
    /\ last' = Plain(op, c, exc)
    /\ hist' = [hist EXCEPT ![c] = Touched(@)]
    /\ UNCHANGED <<connection, cursor>>

\* ArrowCursor.execute, with a query of queries answered by one of responses.
ArrowExecute(c, queries, responses) ==
    /\ cursor[c].created /\ cursor[c].variant = "ARROW"
    /\ \E query \in queries, response \in responses :
          Executed(c, query, response)

\* HTTPCursor.execute, answered by a transport fault or one of bodies.
HTTPExecute(c, queries, bodies) ==
    /\ cursor[c].created /\ cursor[c].variant = "HTTP"
    /\ \E query \in queries, reply \in Replies("HTTP", bodies) :
          Executed(c, query, reply)

\* SocketCursor.execute
SocketExecute(c, queries, bodies) ==
    /\ cursor[c].created /\ cursor[c].variant = "SOCKET"
    /\ \E query \in queries, reply \in Replies("SOCKET", bodies) :
          Executed(c, query, reply)

\* What the executes of an executemany have done so far: the exception that
\* ended the last one, the cursor and its history, the requests sent.
Run(exc, cur, h, msg, sent, log) ==
    [exc |-> exc, cur |-> cur, h |-> h, msg |-> msg, sent |-> sent, log |-> log]

\* The run after one more execute, answered by response.
Step(run, query, response) ==
    LET o == Execute(run.cur, query, response) IN
    Run(o.exc, o.cur,
        AfterExecuteHistory(run.h, o, Answer(run.cur.variant, response)),
        o.msg, run.sent \o o.sent,
        Append(run.log, [parameters |-> query.parameters,
                         out |-> IF o.exc = "" THEN "ok" ELSE o.exc,
                         cur |-> o.cur]))

\* Faulty variant: the loop goes on after an execute has failed.
RECURSIVE ManyThrough(_, _, _, _)
ManyThrough(run, operation, seq_of_parameters, responses) ==
    IF Len(seq_of_parameters) = 0 THEN run
    ELSE ManyThrough(Step(run, Query(operation, Head(seq_of_parameters)),
                          Head(responses)),
                     operation, Tail(seq_of_parameters), Tail(responses))

\* for parameters in seq_of_parameters: self.execute(operation, parameters);
\* the exception of an execute ends the loop.
RECURSIVE Many(_, _, _, _)
Many(run, operation, seq_of_parameters, responses) ==
    IF Len(seq_of_parameters) = 0 \/ run.exc # "" THEN run
    ELSE Many(Step(run, Query(operation, Head(seq_of_parameters)),
                   Head(responses)),
              operation, Tail(seq_of_parameters), Tail(responses))

\* What the server can answer to a cursor of variant.
Responses(variant, flights, bodies) ==
    IF variant = "ARROW" THEN flights ELSE Replies(variant, bodies)

\* Cursor.executemany with one of operations and one of batches; the server
\* answers each execute with one of flights or bodies.
ExecuteMany(c, operations, batches, flights, bodies) ==
    /\ cursor[c].created
    /\ \E operation \in operations, seq_of_parameters \in batches :
       \E responses \in [1..Len(seq_of_parameters) ->
                           Responses(cursor[c].variant, flights, bodies)] :
          LET run == Many(Run("", cursor[c], hist[c], <<>>, <<>>, <<>>),
                          operation, seq_of_parameters, responses)
          IN  /\ cursor' = [cursor EXCEPT ![c] = run.cur]
              /\ hist' = [hist EXCEPT ![c] =
                            IF run.log = <<>> THEN Touched(@) ELSE run.h]
              /\ last' = [Plain("executemany", c,
                                IF run.exc = "" THEN "ok" ELSE run.exc)
                          EXCEPT !.msg = run.msg, !.sent = run.sent,
                                 !.query = Query(operation, NoParameters),
                                 !.batch = seq_of_parameters, !.log = run.log]
              /\ UNCHANGED connection

\* The list a fetch call returned is added to what the cursor delivered.
Fetched(h, rows, it) ==
    [h EXCEPT !.delivered = @ \o rows, !.fresh = FALSE,
              !.exhausted = @ \/ Exhausted(it)]

\* A fetch call on cursor c pulled from the result set, which is left as it,
\* and ends as call (first: it is the first call after a successful execute).
Pull(c, it, call) ==
    /\ cursor' = [cursor EXCEPT ![c].result_set = it]
    /\ hist' = [hist EXCEPT ![c] = Fetched(@, call.rows, it)]
    /\ last' = [call EXCEPT !.first = hist[c].fresh]
    /\ UNCHANGED connection

\* The guards every fetch call starts with.
FetchGuard(cur) ==
    IF IsClosed(cur) # "" THEN IsClosed(cur) ELSE IsResultSetReady(cur)

\* Cursor.fetchone: any exception of next() is turned into None.
FetchOne(c) ==
    /\ cursor[c].created
    /\ IF FetchGuard(cursor[c]) # ""
       THEN Refused("fetchone", c, FetchGuard(cursor[c]))
       ELSE LET p == IterNext(cursor[c].result_set) IN
            Pull(c, p.it,
                 IF p.out = "row"
                 THEN Call("fetchone", c, "ok", FALSE, <<p.row>>, FALSE, 1)
                 ELSE Call("fetchone", c, "ok", TRUE, <<>>, FALSE, 1))

\* The number of rows fetchmany asks islice for: if not size: size =
\* self.arraysize (given is FALSE when the argument is omitted).
FetchSize(cur, given, size) ==
    IF ~given \/ size = 0 THEN cur.arraysize ELSE size

\* Cursor.fetchmany
FetchMany(c) ==
    /\ cursor[c].created
    /\ IF FetchGuard(cursor[c]) # ""
       THEN Refused("fetchmany", c, FetchGuard(cursor[c]))
       ELSE \E given \in BOOLEAN, size \in 0..MaxSize :
            /\ ~given => size = 0
            /\ LET l == Islice(cursor[c].result_set,
                               FetchSize(cursor[c], given, size), <<>>)
               IN  Pull(c, l.it,
                        Call("fetchmany", c,
                             IF l.out = "ok" THEN "ok" ELSE l.exc,
                             FALSE, l.rows, given, size))

\* Cursor.fetchall
FetchAll(c) ==
    /\ cursor[c].created
    /\ IF FetchGuard(cursor[c]) # ""
       THEN Refused("fetchall", c, FetchGuard(cursor[c]))
       ELSE LET l == ListAll(cursor[c].result_set, <<>>) IN
            Pull(c, l.it,
                 Call("fetchall", c, IF l.out = "ok" THEN "ok" ELSE l.exc,
                      FALSE, l.rows, FALSE, 0))

\* Faulty variant: the socket is left as it is.
TelnetLeftOpen(cur) == cur

\* self.__telnet.close(): the socket is closed; what it held unread is
\* discarded, and the server can write no more.
TelnetClose(cur) ==
    [cur EXCEPT !.telnet = "closed",
                !.wire = [@ EXCEPT !.closes = @ + 1, !.inbox = <<>>,
                                   !.outbox = <<>>]]

\* Cursor.close after its closed check: self._connection = None
MarkClosed(cur) == [cur EXCEPT !.connection = FALSE]

\* Cursor.close, and SocketCursor.close, which closes its socket first.
Closed(cur) ==
    MarkClosed(IF cur.variant = "SOCKET" THEN TelnetClose(cur) ELSE cur)

CursorClose(c) ==
    /\ cursor[c].created
    /\ IF IsClosed(cursor[c]) # ""
       THEN Refused("close", c, IsClosed(cursor[c]))
       ELSE /\ cursor' = [cursor EXCEPT ![c] = Closed(@)]
            /\ hist' = [hist EXCEPT ![c] = Touched(@)]
            /\ last' = Plain("close", c, "ok")
            /\ UNCHANGED connection

\* The calls that only check that the cursor is open: the properties
\* description and rowcount, setinputsizes and setoutputsizes.
Readers == {"description", "rowcount", "setinputsizes", "setoutputsizes"}

Read(c) ==
    /\ cursor[c].created
    /\ \E op \in Readers :
          Refused(op, c, IF IsClosed(cursor[c]) # "" THEN IsClosed(cursor[c]) ELSE "ok")

\* ------------------------------------ SocketCursor.execute, read by read
\* The server writes the text of a response piece by piece: the part-th
\* piece of its response body to request req, final when it is the last.
Piece(req, part, final, body) ==
    [req |-> req, part |-> part, final |-> final, body |-> body]

\* The response body to request req as the m pieces the server writes.
Written(req, body, m) == [i \in 1..m |-> Piece(req, i, i = m, body)]

\* b''.join(result)
RECURSIVE Join(_)
Join(chunks) ==
    IF Len(chunks) = 0 THEN <<>> ELSE Head(chunks) \o Join(Tail(chunks))

\* The text is one response from its first piece to its final one.
WholeResponse(text) ==
    /\ Len(text) > 0 /\ text[Len(text)].final
    /\ \A i \in 1..Len(text) : text[i].req = text[1].req /\ text[i].part = i

\* Any other text (a response cut short, or one after the rest of
\* another) is no JSON text; its characters are not followed.
Garbled == RawBody(<<"e">>)

\* The body json.loads is given.
Parsed(text) == IF WholeResponse(text) THEN text[1].body ELSE Garbled

\* No execute of the cursor is between its write and its parse.
Idle(c) == cursor[c].wire.pc = "idle"

\* SocketCursor.execute up to its first read: the closed check,
\* _before_execute and self.__telnet.write(message), which raises OSError
\* or sends the request; the server then has its response (one of bodies,
\* in up to MaxPieces pieces) to write after what it has still to write.
SocketWrite(c, queries, bodies) ==
    /\ cursor[c].created /\ cursor[c].variant = "SOCKET" /\ Idle(c)
    /\ \E query \in queries :
          \/ Executed(c, query, Reply(TransportFault("SOCKET"), Body("none", <<>>)))
          \/ /\ IsClosed(cursor[c]) = ""
             /\ cursor[c].wire.n < MaxRequests
             /\ \E body \in bodies, m \in 1..MaxPieces :
                   cursor' = [cursor EXCEPT ![c].wire =
                                [@ EXCEPT !.n = @ + 1,
                                          !.outbox = @ \o Written(cursor[c].wire.n + 1, body, m),
                                          !.pc = "read_some",
                                          !.query = query,
                                          !.result = <<>>]]
             /\ UNCHANGED <<connection, hist, last>>

\* The server writes the next piece it has to write.
ServerWrite(c) ==
    /\ cursor[c].created /\ cursor[c].telnet = "open"
    /\ cursor[c].wire.outbox # <<>>
    /\ cursor' = [cursor EXCEPT ![c].wire =
                    [@ EXCEPT !.inbox = Append(@, Head(cursor[c].wire.outbox)),
                              !.outbox = Tail(@)]]
    /\ UNCHANGED <<connection, hist, last>>

\* response = self.__telnet.read_some(): blocks until something has
\* arrived and returns what one recv obtains of it; result = [response].
SocketReadSome(c) ==
    /\ cursor[c].created /\ cursor[c].wire.pc = "read_some"
    /\ cursor[c].wire.inbox # <<>>
    /\ \E k \in 1..Len(cursor[c].wire.inbox) :
          cursor' = [cursor EXCEPT ![c].wire =
                       [@ EXCEPT !.result = << SubSeq(cursor[c].wire.inbox, 1, k) >>,
                                 !.inbox = SubSeq(@, k + 1, Len(@)),
                                 !.pc = "read_very_eager"]]
    /\ UNCHANGED <<connection, hist, last>>

\* response = self.__telnet.read_very_eager(): everything that has arrived,
\* without blocking.  A chunk is appended to result and the loop goes on;
\* on an empty one the loop ends and _after_execute(b''.join(result)) runs.
SocketReadEager(c) ==
    LET wire == cursor[c].wire
        text == Join(wire.result)
        reply == Reply("", Parsed(text))
        done == [cursor[c] EXCEPT !.wire = [@ EXCEPT !.pc = "idle",
                                                     !.query = NoQuery,
                                                     !.result = <<>>]]
        o == [TextExchange(done, reply) EXCEPT
                !.sent = <<Request("SOCKET", wire.query)>>]
    IN  /\ cursor[c].created /\ wire.pc = "read_very_eager"
        /\ IF wire.inbox # <<>>
           THEN /\ cursor' = [cursor EXCEPT ![c].wire =
                                [@ EXCEPT !.result = Append(@, wire.inbox),
                                          !.inbox = <<>>]]
                /\ UNCHANGED <<connection, hist, last>>
           ELSE /\ cursor' = [cursor EXCEPT ![c] = o.cur]
                /\ hist' = [hist EXCEPT ![c] =
                              AfterExecuteHistory(@, o, Answer("SOCKET", reply))]
                /\ last' = [ExecuteCall(c, wire.query, o) EXCEPT
                              !.reads = wire.result, !.parsed = text]
                /\ UNCHANGED connection

\* Spec follows the connection and the first cursor it hands out, with
\* every response of TextBodies and FlightResponses.
Solo == {c \in Cursors : c = 1}

Next ==
    \/ ConnectionClose
    \/ ConnectionCommit
    \/ ConnectionCursor(Solo)
    \/ \E c \in Cursors : ArrowExecute(c, PlainQueries, FlightResponses)
    \/ \E c \in Cursors : HTTPExecute(c, PlainQueries, TextBodies)
    \/ \E c \in Cursors : SocketExecute(c, PlainQueries, TextBodies)
    \/ \E c \in Cursors : FetchOne(c)
    \/ \E c \in Cursors : FetchMany(c)
    \/ \E c \in Cursors : FetchAll(c)
    \/ \E c \in Cursors : CursorClose(c)
    \/ \E c \in Cursors : Read(c)

Spec == Init /\ [][Next]_vars

\* SpecPair follows two cursors through every interleaving of their calls:
\* the first is handed out by the connection, the second by it or by another
\* connection, of any interface.  The server answers with a result of two
\* rows, a result that is no list of row-objects, or an error.
Pair == {c \in Cursors : c <= 2}

PairBodies ==
    { RegularBody(2), Body("list", << Scalar("7") >>), Body("nokey", <<>>) }

PairFlights ==
    { Flight("", PointSchema, << PointBatch(1, 1), PointBatch(2, 2) >>),
      Flight("FlightUnavailableError", <<>>, <<>>) }

InitPair ==
    /\ connection \in TestConnections
    /\ \E variants \in [Pair -> Interface] :
          /\ variants[1] = connection.interface
          /\ cursor = [c \in Cursors |->
                         IF c \in Pair THEN NewCursor(variants[c]) ELSE NoCursor]
    /\ hist = [c \in Cursors |-> NoHistory]
    /\ last = Plain("Connection.cursor", 2, "ok")

NextPair ==
    \/ ConnectionClose
    \/ \E c \in Cursors : ArrowExecute(c, PlainQueries, PairFlights)
    \/ \E c \in Cursors : HTTPExecute(c, PlainQueries, PairBodies)
    \/ \E c \in Cursors : SocketExecute(c, PlainQueries, PairBodies)
    \/ \E c \in Cursors : FetchOne(c)
    \/ \E c \in Cursors : FetchMany(c)
    \/ \E c \in Cursors : FetchAll(c)
    \/ \E c \in Cursors : CursorClose(c)

SpecPair == InitPair /\ [][NextPair]_vars

\* SpecMany follows a cursor through its executemany calls, each with up
\* to MaxBatch parameter sets; the server answers each execute with a result
\* of one or two rows, a result that is no list of row-objects, or an error.
ParameterSets ==
    { Mapping(<< <<"a", "1">> >>), Positional("list", << "2" >>) }

Batches(n) == UNION { [1..k -> ParameterSets] : k \in 0..n }

ManyBodies ==
    { RegularBody(1), RegularBody(2), Body("list", << Scalar("7") >>) }

ManyFlights ==
    { Flight("", PointSchema, << PointBatch(1, 1) >>),
      Flight("", PointSchema, << PointBatch(1, 1), PointBatch(2, 2) >>),
      Flight("FlightUnavailableError", <<>>, <<>>) }

NextMany ==
    \/ ConnectionCursor(Solo)
    \/ \E c \in Cursors :
          ExecuteMany(c, {<<"SELECT", " ", "%(a)s">>}, Batches(MaxBatch),
                      ManyFlights, ManyBodies)
    \/ \E c \in Cursors : FetchAll(c)
    \/ \E c \in Cursors : CursorClose(c)

SpecMany == Init /\ [][NextMany]_vars

\* SpecRequest follows a cursor whose executes are given every operation
\* of up to MaxQuery pieces with no parameters, a mapping or a sequence.
Operations(n) == UNION { [1..k -> Pieces] : k \in 0..n }

Queries ==
    { Query(operation, parameters) :
         operation \in Operations(MaxQuery),
         parameters \in { NoParameters,
                          Mapping(<< <<"a", "1">> >>),
                          Mapping(<< <<"b", "2">>, <<"a", "1">> >>),
                          Positional("list", << "1" >>),
                          Positional("tuple", << "1", "2" >>) } }

NextRequest ==
    \/ ConnectionCursor(Solo)
    \/ \E c \in Cursors : ArrowExecute(c, Queries, ManyFlights)
    \/ \E c \in Cursors : HTTPExecute(c, Queries, {RegularBody(1)})
    \/ \E c \in Cursors : SocketExecute(c, Queries, {RegularBody(1)})
    \/ \E c \in Cursors : CursorClose(c)

SpecRequest == Init /\ [][NextRequest]_vars

\* The values of an optional argument, and the names of interfaces.
Optional == {"None", "", "h"}

Names == {"arrow", "Arrow", "ARROW", "http", "Http", "HTTP",
          "socket", "Socket", "SOCKET", "odbc"}

DsnPieces == {"://", ":", "Arrow", "9999", "h"}

DsnTexts(n) == UNION { [1..k -> DsnPieces] : k \in 0..n }

\* The arguments SpecConnect constructs with: a DSN alone (every text of
\* up to MaxDsn pieces, and every name with a host), and every combination
\* of the other arguments with one of four DSNs.
ConnectArguments ==
    { [NoArguments EXCEPT !.dsn = Dsn(text)] :
         text \in DsnTexts(MaxDsn) \cup { <<name, "://", "h">> : name \in Names } }
    \cup
    { Arguments(dsn, user, password, host, database, interface, port) :
         dsn \in {NoDsn, Dsn(<<>>), Dsn(<<"h">>), Dsn(<<"Arrow", "://", "h">>)},
         user \in Optional, password \in Optional, host \in Optional,
         database \in Optional, interface \in {"None", ""} \cup Names,
         port \in {DefaultPort, <<"h">>} }

\* SpecConnect starts when Connection(...) has returned or raised, for
\* every one of ConnectArguments, and follows the Connection and the cursors
\* it hands out.
InitConnect ==
    /\ \E args \in ConnectArguments :
          /\ connection = Connect(args).connection
          /\ last = Plain("Connection", 0,
                          IF Connect(args).exc = "" THEN "ok" ELSE Connect(args).exc)
    /\ cursor = [c \in Cursors |-> NoCursor]
    /\ hist = [c \in Cursors |-> NoHistory]

NextConnect ==
    \/ ConnectionClose
    \/ ConnectionCommit
    \/ ConnectionCursor(Cursors)
    \/ \E c \in Cursors : CursorClose(c)

SpecConnect == InitConnect /\ [][NextConnect]_vars

\* SpecMessage follows a cursor whose executes receive every raw text of up
\* to MaxText characters.
RawBodies == { RawBody(text) : text \in Texts(MaxText) }

NextMessage ==
    \/ ConnectionCursor(Solo)
    \/ \E c \in Cursors : HTTPExecute(c, PlainQueries, RawBodies)
    \/ \E c \in Cursors : SocketExecute(c, PlainQueries, RawBodies)
    \/ \E c \in Cursors : CursorClose(c)

SpecMessage == Init /\ [][NextMessage]_vars

\* SpecSocket follows a socket cursor read by read, through every
\* interleaving of the server's writes with its reads; the server keeps
\* the connection open and answers with a result of one or two rows.
InitSocket ==
    /\ connection =
          Connect([NoArguments EXCEPT !.dsn = Dsn(<<"socket", "://", "h">>)]).connection
    /\ cursor = [c \in Cursors |-> NoCursor]
    /\ hist = [c \in Cursors |-> NoHistory]
    /\ last = Plain("Connection", 0, "ok")

SocketBodies == { RegularBody(1), RegularBody(2) }

NextSocket ==
    \/ ConnectionCursor(Solo)
    \/ \E c \in Cursors : SocketWrite(c, PlainQueries, SocketBodies)
    \/ \E c \in Cursors : ServerWrite(c)
    \/ \E c \in Cursors : SocketReadSome(c)
    \/ \E c \in Cursors : SocketReadEager(c)
    \/ \E c \in Cursors : Idle(c) /\ FetchAll(c)
    \/ \E c \in Cursors : Idle(c) /\ CursorClose(c)

SpecSocket == InitSocket /\ [][NextSocket]_vars

\* ------------------------------------------------------------------ claims
ConnectionCalls == {"Connection.close", "Connection.cursor", "Connection.commit"}

Fetches == {"fetchone", "fetchmany", "fetchall"}

CursorCalls == {"execute", "close"} \cup Fetches \cup Readers

Open(c) == cursor[c].created /\ cursor[c].connection

IsPrefix(s, t) == Len(s) <= Len(t) /\ s = SubSeq(t, 1, Len(s))

Min(a, b) == IF a <= b THEN a ELSE b

\* C1: once Connection.close() has succeeded the connection stays closed:
\* every step from a state with a closed connection leaves it closed, and a
\* close(), cursor() or commit() made in such a state raises ProgrammingError.
C1_ClosedConnectionStaysClosed ==
    [][connection.closed =>
         /\ connection'.closed
         /\ last'.op \in ConnectionCalls => last'.out = "ProgrammingError"]_vars

\* A call on the closed connection was refused.
C1_Witness ==
    /\ connection.closed
    /\ last.op = "Connection.cursor"
    /\ last.out = "ProgrammingError"

\* C2: once Cursor.close() has succeeded the cursor stays closed: every step
\* leaves a closed cursor closed, and execute, fetchone, fetchmany, fetchall,
\* setinputsizes, setoutputsizes, close and the reads of description and
\* rowcount made on it raise ProgrammingError.
C2_ClosedCursorStaysClosed ==
    [][\A c \in Cursors :
         (cursor[c].created /\ ~cursor[c].connection) =>
            /\ ~cursor'[c].connection
            /\ (last'.id = c /\ last'.op \in CursorCalls)
                  => last'.out = "ProgrammingError"]_vars

\* A fetch on a closed cursor that holds a result set was refused.
C2_Witness ==
    \E c \in Cursors :
       /\ cursor[c].created /\ ~cursor[c].connection
       /\ cursor[c].result_set.kind # "none"
       /\ last.id = c /\ last.op = "fetchall"
       /\ last.out = "ProgrammingError"

\* C3: an execute that fails on an open cursor leaves the cursor as it was:
\* still open, with the same description, rowcount, row sequence and position.
C3_FailedExecuteChangesNothing ==
    [][\A c \in Cursors :
         (Open(c) /\ last'.op = "execute" /\ last'.id = c /\ last'.out # "ok")
            => cursor'[c] = cursor[c]]_vars

\* C4: on an open cursor on which no execute has succeeded so far, fetchone,
\* fetchmany and fetchall raise ProgrammingError.
C4_FetchBeforeSuccessRaises ==
    \A c \in Cursors :
       (Open(c) /\ ~hist[c].ok /\ last.id = c /\ last.op \in Fetches)
          => last.out = "ProgrammingError"

\* C5: on an open cursor, description and rowcount are those the most recent
\* successful execute set; before the first successful execute they are None
\* and -1.
C5_MetadataOfLastSuccess ==
    \A c \in Cursors :
       Open(c) =>
          /\ cursor[c].description = hist[c].description
          /\ cursor[c].rowcount = hist[c].rowcount
          /\ ~hist[c].ok => /\ cursor[c].description = NoDescription
                            /\ cursor[c].rowcount = -1

\* An execute failed after an earlier one had succeeded with a row count of
\* two rows or more, and after it had left its own result set behind.
C5_Witness ==
    \E c \in Cursors :
       /\ Open(c) /\ hist[c].ok /\ hist[c].rowcount >= 2
       /\ last.id = c /\ last.op = "execute" /\ last.out = "AttributeError"

\* C6: between a successful execute and the next execute, the rows the fetch
\* calls returned, in call order, are a prefix of the result in server order,
\* and a fetchall that returns has completed it.
C6_DeliveredIsPrefix ==
    \A c \in Cursors :
       hist[c].window =>
          /\ IsPrefix(hist[c].delivered, hist[c].rows)
          /\ (last.id = c /\ last.op = "fetchall" /\ last.out = "ok")
                => hist[c].delivered = hist[c].rows

\* C7: with r rows not yet fetched, fetchmany(n) returns the next min(n, r)
\* rows for every n >= 0, and fetchmany() the next min(1, r) rows.
C7_FetchManyReturnsMin ==
    \A c \in Cursors :
       (hist[c].window /\ last.id = c /\ last.op = "fetchmany" /\ last.out = "ok")
          => LET n == IF last.given THEN last.size ELSE ArraySize
                 d == Len(hist[c].delivered) - Len(last.rows)
                 r == Len(hist[c].rows) - d
             IN  last.rows = SubSeq(hist[c].rows, d + 1, d + Min(n, r))

\* C8: once the result sequence of the last successful execute is exhausted,
\* and until the next successful execute, fetchone returns None and fetchmany
\* and fetchall return an empty list; none of them raises.
C8_ExhaustedStaysEmpty ==
    [][\A c \in Cursors :
         (Open(c) /\ hist[c].ok /\ hist[c].exhausted
            /\ last'.id = c /\ last'.op \in Fetches)
            => /\ last'.out = "ok"
               /\ last'.rows = <<>>
               /\ last'.op = "fetchone" => last'.none]_vars

C10_EmptyConvention ==
    \A c \in Cursors :
       (Open(c) /\ hist[c].quirk) =>
          /\ (last.id = c /\ last.op = "execute") => last.out = "ok"
          /\ hist[c].window =>
               /\ cursor[c].description = Description(<<>>)
               /\ cursor[c].rowcount = 0
               /\ (last.id = c /\ last.op \in Fetches) =>
                     /\ last.out = "ok"
                     /\ last.rows = <<>>
                     /\ last.op = "fetchone" => last.none

\* fetchone returned None after the empty convention was received.
C10_Witness ==
    \E c \in Cursors :
       /\ Open(c) /\ hist[c].quirk /\ hist[c].window
       /\ last.id = c /\ last.op = "fetchone" /\ last.none

\* The text strictly between the first "[" and the last "]" of text.
Between(text) ==
    LET first == CHOOSE i \in 1..Len(text) :
                    text[i] = "[" /\ \A j \in 1..(i - 1) : text[j] # "["
        final == CHOOSE i \in 1..Len(text) :
                    text[i] = "]" /\ \A j \in (i + 1)..Len(text) : text[j] # "]"
    IN  SubSeq(text, first + 1, final - 1)

\* text without the whitespace that surrounds it.
Trimmed(text) ==
    LET inked == {i \in 1..Len(text) : text[i] # " "} IN
    IF inked = {} THEN <<>>
    ELSE SubSeq(text, CHOOSE i \in inked : \A j \in inked : i <= j,
                      CHOOSE i \in inked : \A j \in inked : i >= j)

Holds(text, ch) == \E i \in 1..Len(text) : text[i] = ch

\* C11: an execute of an HTTP or socket cursor that receives a body
\* json.loads rejects raises ProgrammingError, and when the body holds a
\* "[" and a "]" the message is the preamble followed by the text between the
\* first "[" and the last "]", trimmed of surrounding whitespace.
C11_MessageBetweenBrackets ==
    (last.op = "execute" /\ last.raw # <<>> /\ ~IsJson(last.raw[1])) =>
       /\ last.out = "ProgrammingError"
       /\ (Holds(last.raw[1], "[") /\ Holds(last.raw[1], "]"))
             => last.msg = Preamble \o Trimmed(Between(last.raw[1]))

\* The body "[ e]" was received, with whitespace after its first "[".
C11_Witness ==
    /\ last.op = "execute" /\ last.out = "ProgrammingError"
    /\ last.raw = << <<"[", " ", "e", "]">> >>
    /\ last.msg = Preamble \o <<"e">>

\* C12: an execute on an open cursor of any variant returns or raises
\* ProgrammingError; no other exception escapes from it.
C12_OnlyProgrammingError ==
    (last.op = "execute" /\ last.sent # <<>>)
       => last.out \in {"ok", "ProgrammingError"}

\* The spellings of the name of an interface.
Spellings(interface) ==
    CASE interface = "ARROW" -> {"arrow", "Arrow", "ARROW"}
      [] interface = "HTTP" -> {"http", "Http", "HTTP"}
      [] interface = "SOCKET" -> {"socket", "Socket", "SOCKET"}

HasDsn(args) == ~args.dsn.none /\ args.dsn.text # <<>>

\* The pieces of a text before (after) the first piece that is one of seps;
\* the whole text (no piece) when there is none.
Before(text, seps) ==
    SubSeq(text, 1, CHOOSE n \in 0..Len(text) :
                       /\ \A i \in 1..n : text[i] \notin seps
                       /\ n < Len(text) => text[n + 1] \in seps)

After(text, seps) == SubSeq(text, Len(Before(text, seps)) + 2, Len(text))

\* The name of the interface the arguments give: the text before "://" of
\* the DSN, or the interface argument when there is no DSN.
NamedInterface(args) ==
    IF HasDsn(args) THEN Before(args.dsn.text, {"://"}) ELSE <<args.interface>>

KnownInterface(args) ==
    /\ Len(NamedInterface(args)) = 1
    /\ \E i \in Interface : NamedInterface(args)[1] \in Spellings(i)

\* The DSN has a port that is no number: in interface://host[:port], port
\* is the text after the first colon that follows the "://".
UnparseablePort(args) ==
    LET rest == After(args.dsn.text, {"://"})
        port == After(rest, {":", "://"})
    IN  /\ \E i \in 1..Len(rest) : rest[i] \in {":", "://"}
        /\ \/ Before(rest, {":"}) # Before(rest, {":", "://"})
           \/ port = <<>>
           \/ \E i \in 1..Len(port) : port[i] # "9999"

\* What the construction does with args according to C14.
Classified(args) ==
    IF Given(args.user) \/ Given(args.password) \/ Given(args.database)
    THEN "NotSupportedError"
    ELSE IF HasDsn(args)
    THEN IF \/ \A i \in 1..Len(args.dsn.text) : args.dsn.text[i] # "://"
            \/ UnparseablePort(args)
            \/ ~KnownInterface(args)
         THEN "ProgrammingError" ELSE "ok"
    ELSE IF Given(args.host) /\ Given(args.interface)
    THEN IF KnownInterface(args) THEN "ok" ELSE "ProgrammingError"
    ELSE "ProgrammingError"

C14_ConstructionClassified ==
    last.op = "Connection" =>
       /\ last.out = Classified(connection.given)
       /\ connection.made <=> last.out = "ok"

C16_CursorsShareNothing ==
    [][\A c \in Cursors :
          (last'.id = c /\ last'.op \in CursorCalls) =>
             /\ \A d \in Cursors \ {c} : cursor'[d] = cursor[d]
             /\ connection' = connection]_vars

\* The second cursor executed successfully while the first one, of another
\* variant, was in the middle of its result.
C16_Witness ==
    /\ Open(1) /\ Open(2) /\ cursor[1].variant # cursor[2].variant
    /\ hist[1].window /\ Len(hist[1].delivered) = 1 /\ ~hist[1].exhausted
    /\ last.id = 2 /\ last.op = "execute" /\ last.out = "ok"

\* C17: executemany performs one execute per parameter set, in the order
\* given; an execute that fails is the last one performed and its exception
\* is the one executemany raises; when none fails, executemany returns and
\* the cursor is as the execute of the last parameter set left it.
C17_ExecuteManySequential ==
    last.op = "executemany" =>
       LET k == Len(last.batch)
           n == Len(last.log)
       IN  /\ n <= k
           /\ \A i \in 1..n : last.log[i].parameters = last.batch[i]
           /\ \A i \in 1..(n - 1) : last.log[i].out = "ok"
           /\ n < k => (n >= 1 /\ last.log[n].out # "ok")
           /\ (n >= 1 /\ last.log[n].out # "ok") => last.out = last.log[n].out
           /\ (n = k /\ (n = 0 \/ last.log[n].out = "ok")) =>
                 /\ last.out = "ok"
                 /\ n >= 1 => cursor[last.id] = last.log[n].cur

\* An executemany with two parameter sets, on a cursor with a result of two
\* rows, raised the error of its first execute and performed no second one.
C17_Witness ==
    /\ last.op = "executemany" /\ Len(last.batch) = 2 /\ Len(last.log) = 1
    /\ last.out = "URLError" /\ Len(last.sent) = 1
    /\ cursor[last.id].rowcount = 2

\* The value a mapping stores under name, as a text ("" when it stores none).
ValueUnder(items, name) ==
    IF \E i \in 1..Len(items) : items[i][1] = name
    THEN <<items[CHOOSE i \in 1..Len(items) : items[i][1] = name][2]>>
    ELSE <<>>

\* The number of placeholders among the first i pieces of operation.
Ordinal(operation, i) ==
    Cardinality({j \in 1..i : PlaceholderName(operation[j]) # ""})

\* The text that replaces piece i of operation.
Replaced(operation, parameters, i) ==
    IF PlaceholderName(operation[i]) = "" \/ parameters.kind = "none"
    THEN <<operation[i]>>
    ELSE IF parameters.kind = "dict"
    THEN ValueUnder(parameters.items, PlaceholderName(operation[i]))
    ELSE <<parameters.items[Ordinal(operation, i)][2]>>

RECURSIVE Joined(_, _, _)
Joined(operation, parameters, i) ==
    IF i > Len(operation) THEN <<>>
    ELSE Replaced(operation, parameters, i) \o Joined(operation, parameters, i + 1)

\* Every placeholder of the query has a value among its parameters.
Supplied(query) ==
    \A i \in 1..Len(query.operation) :
       (PlaceholderName(query.operation[i]) # "" /\ query.parameters.kind # "none")
          => IF query.parameters.kind = "dict"
             THEN ValueUnder(query.parameters.items,
                             PlaceholderName(query.operation[i])) # <<>>
             ELSE Ordinal(query.operation, i) <= Len(query.parameters.items)

\* C18: the request an execute sends is the text of the operation (without
\* surrounding whitespace, ended by a newline on a socket cursor) in which
\* every placeholder is replaced by its value: the value under its name of a
\* mapping, the i-th value of a sequence for the i-th placeholder.
C18_PlaceholdersReplaced ==
    (last.op = "execute" /\ last.sent # <<>> /\ Supplied(last.query)) =>
       last.sent[1] =
          Strip(Joined(last.query.operation, last.query.parameters, 1))
          \o (IF cursor[last.id].variant = "SOCKET" THEN <<"\n">> ELSE <<>>)

\* The JSON strings among the values of the responses.
Textual(value) == value = "'1990-05-01'"

\* C19: after a successful execute of an HTTP or socket cursor with a result
\* that is not empty, description has one entry per key of the first
\* row-object, in its key order: (name, type, None, None, None, None, False)
\* with type STRING when the first row's value is a text, NUMBER otherwise.
C19_DescriptionFromFirstRow ==
    \A c \in Cursors :
       (cursor[c].created /\ cursor[c].variant # "ARROW" /\ hist[c].ok
          /\ hist[c].objects # <<>>) =>
          LET first == hist[c].objects[1].items IN
          cursor[c].description =
             Description([i \in 1..Len(first) |->
                <<first[i][1],
                  IF Textual(first[i][2]) THEN "STRING" ELSE "NUMBER",
                  "None", "None", "None", "None", FALSE>>])

\* The row is the conversion of the row-object e and holds, position by
\* position, the values of the columns the description names.
AlignedWith(row, e, description) ==
    /\ row = RowValues(e)
    /\ Len(e.items) = Len(description.cols)
    /\ \A i \in 1..Len(e.items) : e.items[i][1] = description.cols[i][1]

\* C20: every row a fetch returns between a successful execute and the next
\* execute is a row of the response that has as many values as description
\* has entries, its i-th value being the one of the column the i-th entry
\* names.
C20_RowsAlignedWithDescription ==
    \A c \in Cursors :
       (hist[c].window /\ last.id = c /\ last.op \in Fetches) =>
          \A r \in 1..Len(last.rows) :
             \E j \in 1..Len(hist[c].objects) :
                AlignedWith(last.rows[r], hist[c].objects[j], cursor[c].description)

\* C21: a socket cursor opens one connection, at construction, and no
\* other: while the cursor is open the connection is open and was never
\* closed; the first close() closes it, once, and a closed cursor is never
\* seen with an open connection; a second close() raises ProgrammingError
\* and leaves the cursor and its connection as they were.
C21_OneSocketConnection ==
    [][\A c \in Cursors :
         (cursor'[c].created /\ cursor'[c].variant = "SOCKET") =>
            /\ cursor'[c].wire.opens = 1
            /\ cursor'[c].wire.closes = IF cursor'[c].connection THEN 0 ELSE 1
            /\ cursor'[c].telnet = IF cursor'[c].connection THEN "open" ELSE "closed"
            /\ (cursor[c].created /\ last'.op = "close" /\ last'.id = c) =>
                  IF cursor[c].connection
                  THEN last'.out = "ok" /\ ~cursor'[c].connection
                  ELSE last'.out = "ProgrammingError" /\ cursor'[c] = cursor[c]]_vars

\* A socket cursor that has executed was closed, and closed a second time.
C21_Witness ==
    \E c \in Cursors :
       /\ cursor[c].created /\ cursor[c].variant = "SOCKET"
       /\ ~cursor[c].connection
       /\ cursor[c].wire.n > 1
       /\ cursor[c].wire.closes = 1
       /\ last.op = "close" /\ last.id = c /\ last.out = "ProgrammingError"

\* The step in which an execute of socket cursor c ends its reads (the
\* eager read that yields nothing) and parses.
Parses(c) ==
    /\ cursor[c].created
    /\ cursor[c].wire.pc = "read_very_eager" /\ cursor'[c].wire.pc = "idle"

\* The server has written the whole of its response to request req.
AllWritten(c, req) ==
    \A i \in 1..Len(cursor[c].wire.outbox) : cursor[c].wire.outbox[i].req # req

\* C22: SocketCursor.execute writes its request, whole and ended by a
\* newline, before its first read; every read appends what it obtained, in
\* arrival order; the execute parses at the first eager read that yields
\* nothing, and what it parses is the concatenation of the chunks read; when
\* the server has written its whole response to the request by then, the
\* text parsed is that response.
C22_ParsesWhatWasRead ==
    [][\A c \in Cursors :
         LET wire == cursor[c].wire IN
         /\ (cursor[c].created /\ wire.pc = "idle" /\ cursor'[c].wire.pc # "idle") =>
               /\ cursor'[c].wire.n = wire.n + 1
               /\ cursor'[c].wire.pc = "read_some"
               /\ cursor'[c].wire.result = <<>>
         /\ (cursor[c].created /\ cursor'[c].wire.pc # "idle"
               /\ cursor'[c].wire.result # wire.result) =>
               /\ wire.pc # "idle" /\ cursor'[c].wire.n = wire.n
               /\ Len(cursor'[c].wire.result) = Len(wire.result) + 1
               /\ Join(cursor'[c].wire.result) \o cursor'[c].wire.inbox
                     = Join(wire.result) \o wire.inbox
         /\ Parses(c) =>
               /\ wire.inbox = <<>>
               /\ last'.op = "execute" /\ last'.id = c
               /\ last'.sent = << Strip(wire.query.operation) \o <<"\n">> >>
               /\ last'.reads = wire.result
               /\ last'.parsed = Join(wire.result)
               /\ \A i \in 1..Len(wire.result) : wire.result[i] # <<>>
               /\ AllWritten(c, wire.n) =>
                     /\ WholeResponse(last'.parsed)
                     /\ last'.parsed[1].req = wire.n]_vars

\* C23: what the k-th execute of a socket cursor parses was written by the
\* server in reply to the k-th request.
C23_ParsesItsOwnResponse ==
    [][\A c \in Cursors :
         Parses(c) =>
            \A i \in 1..Len(last'.parsed) :
               last'.parsed[i].req = cursor[c].wire.n]_vars

\* C24: an execute of an open HTTP cursor issues one POST (a closed one
\* issues none), and when it has returned or raised, the response handle it
\* opened is closed, whatever became of the body.
C24_NoResponseLeftOpen ==
    \A c \in Cursors :
       (cursor[c].created /\ cursor[c].variant = "HTTP"
          /\ last.op = "execute" /\ last.id = c) =>
          /\ Len(last.sent) = IF cursor[c].connection THEN 1 ELSE 0
          /\ last.handle # "open"

IsSuffix(s, t) == Len(s) <= Len(t) /\ s = SubSeq(t, Len(t) - Len(s) + 1, Len(t))

\* The generator over the stream all has stopped at a batch that failed.
Broken(all, it) ==
    it.stream = <<>> /\ \E i \in 1..Len(all) : all[i].fault

\* How many batches of the stream all the generator has pulled: all that
\* are no longer in its stream, or, once a batch has failed, those up to it.
PulledOf(all, it) ==
    IF Broken(all, it)
    THEN CHOOSE i \in 1..Len(all) :
            all[i].fault /\ \A j \in 1..(i - 1) : ~all[j].fault
    ELSE Len(all) - Len(it.stream)

ColumnRows(chunk) ==
    [j \in 1..chunk.num_rows |->
        [c \in 1..Len(chunk.cols) |-> chunk.cols[c][j]]]

\* The rows of the batches in arrival order, up to a batch that fails.
RECURSIVE RowsInOrder(_)
RowsInOrder(batches) ==
    IF Len(batches) = 0 \/ Head(batches).fault THEN <<>>
    ELSE ColumnRows(Head(batches)) \o RowsInOrder(Tail(batches))

\* The rows a generator has still to hand out.
Remaining(it) == it.buf \o RowsInOrder(it.stream)

\* C26: the rows of an Arrow result are the rows of its batches in arrival
\* order, each row j of a batch being the j-th value of each column in
\* column order, produced in increasing j: what the row sequence has still
\* to hand out is always the rest of that sequence, and a fetch call that
\* returns hands out its next rows.
C26_RowsOfBatchesInOrder ==
    [][\A c \in Cursors :
         (cursor'[c].created /\ cursor'[c].variant = "ARROW" /\ hist'[c].ok) =>
            /\ IsSuffix(Remaining(cursor'[c].result_set),
                        RowsInOrder(hist'[c].stream))
            /\ (last'.op = "execute" /\ last'.id = c /\ last'.out = "ok") =>
                  Remaining(cursor'[c].result_set) = RowsInOrder(hist'[c].stream)
            /\ (cursor[c].result_set.kind = "gen" /\ last'.id = c
                  /\ last'.op \in Fetches /\ last'.out = "ok") =>
                  last'.rows \o Remaining(cursor'[c].result_set)
                     = Remaining(cursor[c].result_set)]_vars

\* The calls the closed check of a cursor guards, of those the claim names.
Guarded == {"execute", "description", "rowcount"} \cup Fetches

\* C27: execute, the fetch calls and the reads of description and rowcount
\* raise ProgrammingError on a cursor that has been closed and on a cursor
\* whose connection has been closed.
C27_ClosedCheckCoversConnection ==
    \A c \in Cursors :
       (cursor[c].created /\ (~cursor[c].connection \/ connection.closed)
          /\ last.id = c /\ last.op \in Guarded) =>
          last.out = "ProgrammingError"

\* C28: fetchone returns None only when the row sequence is exhausted: when
\* pulling the next row raises, it does not return None; and it returns a
\* row exactly when fetchmany(1) would return one, None exactly when
\* fetchmany(1) would return the empty list.
C28_NoneOnlyWhenExhausted ==
    [][\A c \in Cursors :
         (cursor[c].created /\ FetchGuard(cursor[c]) = ""
            /\ last'.op = "fetchone" /\ last'.id = c) =>
            LET many == Islice(cursor[c].result_set, 1, <<>>) IN
            /\ last'.none => IterNext(cursor[c].result_set).out = "stop"
            /\ last'.none <=> (many.out = "ok" /\ many.rows = <<>>)
            /\ ~last'.none => (many.out = "ok" /\ many.rows = last'.rows)]_vars

\* C29: executemany on a closed cursor raises ProgrammingError, whatever
\* the sequence of parameter sets (the empty one too), and sends no request.
C29_ExecuteManyOnClosedRaises ==
    \A c \in Cursors :
       (cursor[c].created /\ ~cursor[c].connection
          /\ last.op = "executemany" /\ last.id = c) =>
          /\ last.out = "ProgrammingError"
          /\ last.sent = <<>>

====
